---- MODULE Spec2Model ----
(***************************************************************************)
(* generate_predictions.py: the daily prediction pipeline.                 *)
(*                                                                         *)
(* The model follows main() step by step over two consecutive runs of the  *)
(* script. The only state that survives a run is the two files             *)
(* (predictions.json, history.csv); everything else is rebuilt per run.    *)
(* The upstream collaborators (yfinance, the news API, the generative      *)
(* endpoint, the file system) answer nondeterministically.                 *)
(***************************************************************************)
EXTENDS Integers, Sequences, FiniteSets, TLC

VARIABLES
    run,                      \* which run of the script this is (the date)
    pc,                       \* position of the process
    GEMINI_API_KEY,           \* TRUE iff the secret is in the environment
    NEWS_API_KEY,             \* TRUE iff the optional secret is set (truthy)
    exit_status,              \* process exit status of the run, -1 while running
    live_file,                \* content of predictions.json
    history_file,             \* content of history.csv
    previous_predictions,     \* main(): symbol -> prior success record
    todays_data_for_json,     \* main(): the snapshot being assembled
    idx,                      \* 1-based position in SYMBOLS of the loop
    stock_data,               \* closes of the bars yfinance returned
    news,                     \* news_headlines
    news_calls,               \* requests.get calls made for this symbol
    attempt,                  \* get_ai_analysis: loop variable
    calls,                    \* requests.post calls made for this symbol
    slept,                    \* time units slept while on this symbol
    trace,                    \* endpoint answers received for this symbol
    exc,                      \* exception last caught / in flight
    ai_prediction_for_tomorrow,
    accuracy_check_hit,
    yesterdays_predicted_range_str,
    historical_log_record,
    outcome,                  \* per run and symbol: how processing ended
    file_at_start,            \* predictions.json as it was when the run began
    snapshot_writes           \* writes of predictions.json in this run

vars == <<run, pc, GEMINI_API_KEY, NEWS_API_KEY, exit_status, live_file,
          history_file, previous_predictions, todays_data_for_json, idx,
          stock_data, news, news_calls, attempt, calls, slept, trace, exc,
          ai_prediction_for_tomorrow, accuracy_check_hit,
          yesterdays_predicted_range_str, historical_log_record, outcome,
          file_at_start, snapshot_writes>>

(***************************************************************************)
(* Python / JSON values. Values of different Python types are tagged so    *)
(* that they can sit in one field.                                         *)
(***************************************************************************)
None == [t |-> "null"]
Num(n) == [t |-> "num", v |-> n]
Text(s) == [t |-> "str", v |-> s]
List(s) == [t |-> "list", v |-> s]
Bool(b) == [t |-> "bool", v |-> b]

\* dict.get(key): the value, None when the key is missing
Get(d, k) == IF k \in DOMAIN d THEN d[k] ELSE None

\* truthiness of a value that is None or a list
Truthy(v) == v.t = "list" /\ Len(v.v) > 0

\* f"${x:.2f}" for a whole number x
Money(x) == "$" \o ToString(x) \o ".00"

(***************************************************************************)
(* Configuration (lines 13-15, 52).                                        *)
(***************************************************************************)
\* The configured list is ['AAPL', 'GOOGL', 'TSLA', 'MSFT']; the loop body is
\* the same for every ticker and only tells the first from the others (the
\* pacing delay), so the model keeps the first two.
SYMBOLS == <<"AAPL", "GOOGL">>

Symbols == {SYMBOLS[i] : i \in 1..Len(SYMBOLS)}

max_retries == 3

RetryDelay == 2

PacingDelay == 5

\* The model follows this many consecutive runs.
Runs == {1, 2}

(***************************************************************************)
(* Exceptions.                                                             *)
(***************************************************************************)
Exc(type, msg) == [type |-> type, msg |-> msg]

NoExc == Exc("none", "")

Returned(v) == [raised |-> FALSE, exc |-> NoExc, value |-> v]

Raised(type, msg) == [raised |-> TRUE, exc |-> Exc(type, msg), value |-> None]

(***************************************************************************)
(* What the generative endpoint can answer to one requests.post.           *)
(* An answer is classified by the first line of the attempt that it makes  *)
(* fail; an answer that gets as far as line 61 carries the text payload of *)
(* the first candidate: its body, and whether the body sits inside         *)
(* ```json ... ``` fences.                                                 *)
(***************************************************************************)
Garbage == [t |-> "garbage"]          \* text that is not JSON

ReplyText(fenced, body) == [fenced |-> fenced, body |-> body]

NoText == ReplyText(FALSE, Garbage)

Answer(kind, text) == [kind |-> kind, text |-> text]

\* the reply the prompt asks for (lines 45-47)
PromptObj(lo, hi) ==
    [sentiment |-> Text("Bullish"), reasoning |-> Text("because"),
     predicted_low |-> lo, predicted_high |-> hi]

\* a reply that carries the key main() reads (lines 138, 155, 156)
RangeObj(r) ==
    [sentiment |-> Text("Bullish"), reasoning |-> Text("because"),
     predicted_range |-> r]

FailureKinds ==
    {"network",         \* 55-56: connection error, timeout, HTTP error status
     "empty",           \* 57: empty body
     "body_not_json",   \* 58: response.json() fails
     "no_candidates",   \* 59-60: 'candidates' missing or empty
     "missing_field",   \* 61: 'content' / 'parts' / 'text' missing, parts empty
     "wrong_shape"}     \* 61-62: content null, candidate or text of another type

\* text.strip().replace('```json', '').replace('```', '')   (line 62)
CleanText(text) == ReplyText(FALSE, text.body)

\* json.loads(text)   (line 63): fenced text is not JSON
JsonLoads(text) ==
    IF text.fenced \/ text.body = Garbage
    THEN Raised("JSONDecodeError", "Expecting value")
    ELSE Returned(text.body)

\* One pass through the try body of get_ai_analysis (lines 55-63).
ParseAttempt(a) ==
    CASE a.kind = "network" -> Raised("RequestException", "request failed")
      [] a.kind = "empty" ->
            Raised("ValueError", "Received empty response from API")
      [] a.kind = "body_not_json" -> Raised("JSONDecodeError", "body")
      [] a.kind = "no_candidates" ->
            Raised("ValueError", "API response blocked or empty")
      [] a.kind = "missing_field" -> Raised("KeyError", "content")
      [] a.kind = "wrong_shape" ->
            Raised("TypeError", "object is not subscriptable")
      [] OTHER -> JsonLoads(CleanText(a.text))

\* the except clause of line 64
CaughtTypes ==
    {"RequestException", "JSONDecodeError", "KeyError", "IndexError",
     "ValueError"}

RetryCaught(type) == type \in CaughtTypes

(***************************************************************************)
(* get_stock_data_and_news (lines 28-40).                                  *)
(***************************************************************************)
\* What the news API can do to the one requests.get of line 37.
NewsAnswers ==
    {"articles",        \* 200 with articles that carry a title
     "request_error",   \* connection error, error status, body not JSON
     "no_title"}        \* 200 with an article that has no 'title' key

\* FetchNews that asks the news API whether or not the key is set
FetchNewsUnguarded(key, answer) ==
    CASE answer = "request_error" ->
            Returned("Could not fetch news: request failed")
      [] answer = "no_title" -> Raised("KeyError", "'title'")
      [] OTHER -> Returned("- headline")

\* lines 33-39: the headlines, or the exception that leaves the function
FetchNews(key, answer) ==
    IF ~key THEN Returned("No recent news found.")
    ELSE CASE answer = "articles" -> Returned("- headline")
           [] answer = "request_error" ->
                 Returned("Could not fetch news: request failed")
           [] OTHER -> Raised("KeyError", "'title'")

\* lines 110-112
current_price_of(bars) == bars[Len(bars)]

previous_close_of(bars) == bars[Len(bars) - 1]

(***************************************************************************)
(* The accuracy check of main() (lines 119-128).                           *)
(***************************************************************************)
Unknown == [raised |-> FALSE, exc |-> NoExc, hit |-> None, str |-> "N/A"]

EvalRaised(type, msg) ==
    [raised |-> TRUE, exc |-> Exc(type, msg), hit |-> None, str |-> "N/A"]

\* CompareBounds with both ends of the range exclusive
CompareBoundsStrict(pred_low, pred_high, current_price) ==
    IF pred_low.t # "num" \/ pred_high.t # "num"
    THEN EvalRaised("TypeError", "'<' not supported")
    ELSE [raised |-> FALSE, exc |-> NoExc,
          hit |-> Bool(pred_low.v < current_price
                        /\ current_price < pred_high.v),
          str |-> Money(pred_low.v) \o " - " \o Money(pred_high.v)]

\* CompareBounds that puts an inverted range in order before comparing
CompareBoundsSorted(pred_low, pred_high, current_price) ==
    IF pred_low.t # "num" \/ pred_high.t # "num"
    THEN EvalRaised("TypeError", "'<=' not supported")
    ELSE LET lo == IF pred_low.v <= pred_high.v
                   THEN pred_low.v ELSE pred_high.v
             hi == IF pred_low.v <= pred_high.v
                   THEN pred_high.v ELSE pred_low.v
         IN  [raised |-> FALSE, exc |-> NoExc,
              hit |-> Bool(lo <= current_price /\ current_price <= hi),
              str |-> Money(pred_low.v) \o " - " \o Money(pred_high.v)]

\* lines 127-128, both bounds not None
CompareBounds(pred_low, pred_high, current_price) ==
    IF pred_low.t # "num"
    THEN EvalRaised("TypeError", "'<=' not supported")
    ELSE IF pred_high.t # "num"
    THEN IF pred_low.v <= current_price
         THEN EvalRaised("TypeError", "'<=' not supported")
         ELSE EvalRaised("ValueError", "Unknown format code 'f'")
    ELSE [raised |-> FALSE, exc |-> NoExc,
          hit |-> Bool(pred_low.v <= current_price
                        /\ current_price <= pred_high.v),
          str |-> Money(pred_low.v) \o " - " \o Money(pred_high.v)]

\* lines 123-128 for yesterday's record of the symbol
CheckRange(yesterdays_pred, current_price) ==
    LET r == Get(yesterdays_pred, "predicted_range")
    IN  IF "predicted_range" \in DOMAIN yesterdays_pred
           /\ Truthy(r) /\ Len(r.v) = 2
        THEN IF r.v[1] # None /\ r.v[2] # None
             THEN CompareBounds(r.v[1], r.v[2], current_price)
             ELSE Unknown
        ELSE Unknown

\* lines 119-128
EvaluateAccuracy(prev, symbol, current_price) ==
    IF symbol \in DOMAIN prev
    THEN CheckRange(prev[symbol], current_price)
    ELSE Unknown

(***************************************************************************)
(* The two records of a processed symbol (lines 131-159).                  *)
(* Prices are whole numbers, for which round(x, 2) and round(x, 4) leave   *)
(* the value as it is.                                                     *)
(***************************************************************************)
PriceChange(bars) == current_price_of(bars) - previous_close_of(bars)

PriceChangePercent(bars) == (PriceChange(bars) * 100) \div previous_close_of(bars)

\* AccuracyCheck that tests the truth of the flag, not whether it is None
AccuracyCheckTruthy(hit, str, current_price) ==
    IF hit = Bool(TRUE)
    THEN [yesterdays_predicted_range |-> str,
          todays_actual_price |-> Money(current_price),
          hit |-> hit]
    ELSE None

\* lines 139-143
AccuracyCheck(hit, str, current_price) ==
    IF hit # None
    THEN [yesterdays_predicted_range |-> str,
          todays_actual_price |-> Money(current_price),
          hit |-> hit]
    ELSE None

\* lines 131-144
LiveRecord(symbol, bars, ai, hit, str) ==
    [symbol |-> symbol,
     current_price |-> current_price_of(bars),
     price_change |-> PriceChange(bars),
     price_change_percent |-> PriceChangePercent(bars),
     sentiment |-> Get(ai, "sentiment"),
     reasoning |-> Get(ai, "reasoning"),
     predicted_range |-> Get(ai, "predicted_range"),
     accuracy_check |-> AccuracyCheck(hit, str, current_price_of(bars))]

\* (ai.get('predicted_range') or [None, None])   (lines 155-156)
RangeOrNones(ai) ==
    IF Truthy(Get(ai, "predicted_range"))
    THEN Get(ai, "predicted_range").v
    ELSE <<None, None>>

\* HistoryRecord whose price change is taken against the date
HistoryRecordDated(date, symbol, bars, ai, hit, str) ==
    IF Len(RangeOrNones(ai)) < 2
    THEN Raised("IndexError", "list index out of range")
    ELSE Returned(
           [date |-> date,
            symbol |-> symbol,
            actual_price |-> current_price_of(bars),
            price_change |-> current_price_of(bars) - date,
            price_change_percent |-> PriceChangePercent(bars),
            ai_sentiment_for_tomorrow |-> Get(ai, "sentiment"),
            predicted_low_for_tomorrow |-> RangeOrNones(ai)[1],
            predicted_high_for_tomorrow |-> RangeOrNones(ai)[2],
            yesterdays_predicted_range |-> str,
            accuracy_check_hit |-> hit])

\* lines 148-159: the row, or the IndexError of subscripting a short list
HistoryRecord(date, symbol, bars, ai, hit, str) ==
    IF Len(RangeOrNones(ai)) < 2
    THEN Raised("IndexError", "list index out of range")
    ELSE Returned(
           [date |-> date,
            symbol |-> symbol,
            actual_price |-> current_price_of(bars),
            price_change |-> PriceChange(bars),
            price_change_percent |-> PriceChangePercent(bars),
            ai_sentiment_for_tomorrow |-> Get(ai, "sentiment"),
            predicted_low_for_tomorrow |-> RangeOrNones(ai)[1],
            predicted_high_for_tomorrow |-> RangeOrNones(ai)[2],
            yesterdays_predicted_range |-> str,
            accuracy_check_hit |-> hit])

\* line 166
ErrorRecord(symbol, msg) == [symbol |-> symbol, error |-> msg]

(***************************************************************************)
(* log_to_history_csv (lines 70-87). The file is absent or a list of rows. *)
(***************************************************************************)
headers ==
    <<"date", "symbol", "actual_price", "price_change",
      "price_change_percent", "ai_sentiment_for_tomorrow",
      "predicted_low_for_tomorrow", "predicted_high_for_tomorrow",
      "yesterdays_predicted_range", "accuracy_check_hit">>

HeaderRow == [t |-> "header", fields |-> headers]

NoHistory == [exists |-> FALSE, rows |-> <<>>]

\* HeaderIfNew that writes the header on every append
HeaderAlways(file_exists) == <<HeaderRow>>

\* lines 84-85
HeaderIfNew(file_exists) == IF ~file_exists THEN <<HeaderRow>> ELSE <<>>

\* log_to_history_csv that opens the file with mode 'w'
log_to_history_csv_truncating(file, log_data) ==
    [exists |-> TRUE, rows |-> <<HeaderRow, log_data>>]

\* lines 79-87
log_to_history_csv(file, log_data) ==
    [exists |-> TRUE,
     rows |-> file.rows \o HeaderIfNew(file.exists) \o <<log_data>>]

(***************************************************************************)
(* predictions.json and its load (lines 91-99).                            *)
(***************************************************************************)
LiveFile(kind, stamp, preds) ==
    [kind |-> kind, last_updated |-> stamp, predictions |-> preds]

\* no file; a file that is not JSON; a JSON file whose top level is no object
MissingFile == LiveFile("missing", 0, <<>>)

MalformedFile == LiveFile("malformed", 0, <<>>)

NotObjectFile == LiveFile("not_object", 0, <<>>)

EmptyPrior == [s \in {} |-> None]

\* line 96
Usable(item) == "symbol" \in DOMAIN item /\ "error" \notin DOMAIN item

\* lines 95-97: the last usable item of each symbol
PriorOf(preds) ==
    LET keep == {i \in 1..Len(preds) : Usable(preds[i])}
        last(s) == CHOOSE i \in keep :
                      /\ preds[i].symbol = s
                      /\ \A j \in keep : preds[j].symbol = s => j <= i
    IN  [s \in {preds[i].symbol : i \in keep} |-> preds[last(s)]]

\* lines 92-99: the mapping, or the exception that leaves main()
LoadPrior(file) ==
    CASE file.kind \in {"missing", "malformed"} -> Returned(EmptyPrior)
      [] file.kind = "not_object" ->
            Raised("AttributeError", "object has no attribute 'get'")
      [] OTHER -> Returned(PriorOf(file.predictions))

(***************************************************************************)
(* Inputs the collaborators can hand to a run of the pipeline.             *)
(***************************************************************************)
\* closes of the bars yfinance returns, oldest first
BarSets == {<<>>, <<1>>, <<1, 2>>}

\* Answers of the generative endpoint in a pipeline run: a failed request,
\* the reply the prompt asks for (fenced), a range that holds today's close
\* of 2, one that does not, a one-element range, a range of strings.
PipelineAnswers ==
    {Answer("network", NoText),
     Answer("text", ReplyText(TRUE, PromptObj(Num(1), Num(3)))),
     Answer("text", ReplyText(FALSE, RangeObj(List(<<Num(2), Num(2)>>)))),
     Answer("text", ReplyText(FALSE, RangeObj(List(<<Num(1), Num(1)>>)))),
     Answer("text", ReplyText(FALSE, RangeObj(List(<<Num(2)>>)))),
     Answer("text", ReplyText(FALSE, RangeObj(List(<<Text("1"), Text("3")>>))))}

\* what predictions.json can be before the first run
InitialLiveFiles == {MissingFile, MalformedFile, NotObjectFile}

(***************************************************************************)
(* State.                                                                  *)
(***************************************************************************)
Pending ==
    [status |-> "Pending", bars |-> <<>>, forecast |-> None,
     result |-> "NotEvaluated"]

NoSnapshot == [last_updated |-> 0, predictions |-> <<>>]

symbol == SYMBOLS[idx]

\* the tri-state of the spec for accuracy_check_hit
ResultOf(hit) ==
    IF hit = None THEN "Unknown" ELSE IF hit.v THEN "Hit" ELSE "Miss"

LocalsCleared ==
    /\ stock_data' = <<>>
    /\ news' = ""
    /\ news_calls' = 0
    /\ attempt' = 0
    /\ calls' = 0
    /\ slept' = 0
    /\ trace' = <<>>
    /\ exc' = NoExc
    /\ ai_prediction_for_tomorrow' = None
    /\ accuracy_check_hit' = None
    /\ yesterdays_predicted_range_str' = ""
    /\ historical_log_record' = None

LocalsInit ==
    /\ stock_data = <<>>
    /\ news = ""
    /\ news_calls = 0
    /\ attempt = 0
    /\ calls = 0
    /\ slept = 0
    /\ trace = <<>>
    /\ exc = NoExc
    /\ ai_prediction_for_tomorrow = None
    /\ accuracy_check_hit = None
    /\ yesterdays_predicted_range_str = ""
    /\ historical_log_record = None

FilesInit ==
    /\ live_file \in InitialLiveFiles
    /\ history_file = NoHistory

Init ==
    /\ run = 1
    /\ pc = "Config"
    /\ GEMINI_API_KEY = FALSE
    /\ NEWS_API_KEY = FALSE
    /\ exit_status = -1
    /\ FilesInit
    /\ previous_predictions = EmptyPrior
    /\ todays_data_for_json = NoSnapshot
    /\ idx = 1
    /\ LocalsInit
    /\ outcome = [r \in Runs |-> [s \in Symbols |-> Pending]]
    /\ file_at_start = live_file
    /\ snapshot_writes = 0

\* NextSymbol that leaves the loop one symbol early
NextSymbolShort ==
    /\ idx' = idx + 1
    /\ pc' = IF idx < Len(SYMBOLS) - 1 THEN "FetchData" ELSE "WriteSnapshot"

\* the for statement of line 103 moves on
NextSymbol ==
    /\ idx' = idx + 1
    /\ pc' = IF idx < Len(SYMBOLS) THEN "FetchData" ELSE "WriteSnapshot"

\* HandleError that starts the collection over with the error record
HandleErrorLosing(preds, e) ==
    /\ todays_data_for_json' =
          [todays_data_for_json EXCEPT
              !.predictions = <<ErrorRecord(symbol, e.msg)>>]
    /\ outcome' = [outcome EXCEPT ![run][symbol].status = "Failed"]
    /\ NextSymbol
    /\ LocalsCleared

\* lines 164-166: the handler of the per-symbol try, entered with the
\* predictions collected so far
HandleError(preds, e) ==
    /\ todays_data_for_json' =
          [todays_data_for_json EXCEPT
              !.predictions = Append(preds, ErrorRecord(symbol, e.msg))]
    /\ outcome' = [outcome EXCEPT ![run][symbol].status = "Failed"]
    /\ NextSymbol
    /\ LocalsCleared

\* lines 18-23
Configure ==
    /\ pc = "Config"
    /\ \E g \in BOOLEAN, n \in BOOLEAN :
          /\ g \/ ~n
          /\ GEMINI_API_KEY' = g
          /\ NEWS_API_KEY' = n
          /\ pc' = IF g THEN "LoadPrior" ELSE "Exit"
          /\ exit_status' = IF g THEN -1 ELSE 1
    /\ UNCHANGED <<run, live_file, history_file, previous_predictions,
                   todays_data_for_json, idx, stock_data, news, news_calls,
                   attempt, calls, slept, trace, exc,
                   ai_prediction_for_tomorrow, accuracy_check_hit,
                   yesterdays_predicted_range_str, historical_log_record,
                   outcome, file_at_start, snapshot_writes>>

\* lines 91-101
LoadPriorSnapshot ==
    /\ pc = "LoadPrior"
    /\ LET r == LoadPrior(live_file)
       IN  IF r.raised
           THEN /\ pc' = "Crashed"
                /\ exit_status' = 1
                /\ exc' = r.exc
                /\ UNCHANGED <<previous_predictions, todays_data_for_json>>
           ELSE /\ pc' = "FetchData"
                /\ previous_predictions' = r.value
                /\ todays_data_for_json' =
                      [last_updated |-> run, predictions |-> <<>>]
                /\ UNCHANGED <<exit_status, exc>>
    /\ file_at_start' = live_file
    /\ UNCHANGED <<run, GEMINI_API_KEY, NEWS_API_KEY, live_file, history_file,
                   idx, stock_data, news, news_calls, attempt, calls, slept,
                   trace, ai_prediction_for_tomorrow, accuracy_check_hit,
                   yesterdays_predicted_range_str, historical_log_record,
                   outcome, snapshot_writes>>

\* lines 104-112 with get_stock_data_and_news (lines 28-40)
FetchData ==
    /\ pc = "FetchData"
    /\ \E bars \in BarSets,
          answer \in IF NEWS_API_KEY THEN NewsAnswers ELSE {"unasked"} :
          IF Len(bars) < 2
          THEN /\ HandleError(todays_data_for_json.predictions,
                              Exc("ValueError",
                                  "yfinance returned insufficient data"))
               /\ UNCHANGED previous_predictions
          ELSE LET r == FetchNews(NEWS_API_KEY, answer)
               IN  IF r.raised
                   THEN /\ HandleError(todays_data_for_json.predictions, r.exc)
                        /\ UNCHANGED previous_predictions
                   ELSE /\ stock_data' = bars
                        /\ news' = r.value
                        /\ news_calls' = IF NEWS_API_KEY THEN 1 ELSE 0
                        /\ slept' = IF idx > 1 THEN PacingDelay ELSE 0
                        /\ pc' = "Forecast"
                        /\ outcome' =
                              [outcome EXCEPT ![run][symbol].bars = bars]
                        /\ UNCHANGED <<previous_predictions,
                                       todays_data_for_json, idx, attempt,
                                       calls, trace, exc,
                                       ai_prediction_for_tomorrow,
                                       accuracy_check_hit,
                                       yesterdays_predicted_range_str,
                                       historical_log_record>>
    /\ UNCHANGED <<run, GEMINI_API_KEY, NEWS_API_KEY, exit_status, live_file,
                   history_file, file_at_start, snapshot_writes>>

\* one iteration of the loop of get_ai_analysis (lines 53-67)
ForecastAttempt(answers) ==
    /\ pc = "Forecast"
    /\ \E a \in answers :
          LET r == ParseAttempt(a)
          IN  /\ calls' = calls + 1
              /\ trace' = Append(trace, a)
              /\ IF ~r.raised
                 THEN /\ ai_prediction_for_tomorrow' = r.value
                      /\ exc' = NoExc
                      /\ pc' = "ForecastDone"
                      /\ UNCHANGED <<attempt, slept>>
                 ELSE IF RetryCaught(r.exc.type) /\ attempt < max_retries - 1
                 THEN /\ slept' = slept + RetryDelay
                      /\ attempt' = attempt + 1
                      /\ exc' = r.exc
                      /\ UNCHANGED <<pc, ai_prediction_for_tomorrow>>
                 ELSE /\ exc' = r.exc
                      /\ pc' = "ForecastDone"
                      /\ UNCHANGED <<attempt, slept,
                                     ai_prediction_for_tomorrow>>
    /\ UNCHANGED <<run, GEMINI_API_KEY, NEWS_API_KEY, exit_status, live_file,
                   history_file, previous_predictions, todays_data_for_json,
                   idx, stock_data, news, news_calls, accuracy_check_hit,
                   yesterdays_predicted_range_str, historical_log_record,
                   outcome, file_at_start, snapshot_writes>>

\* line 114: get_ai_analysis hands its value, or its exception, to main()
ForecastReturn ==
    /\ pc = "ForecastDone"
    /\ IF exc # NoExc
       THEN /\ HandleError(todays_data_for_json.predictions, exc)
       ELSE /\ pc' = "Evaluate"
            /\ outcome' = [outcome EXCEPT ![run][symbol].forecast =
                              ai_prediction_for_tomorrow]
            /\ attempt' = 0
            /\ calls' = 0
            /\ trace' = <<>>
            /\ news' = ""
            /\ UNCHANGED <<todays_data_for_json, idx, stock_data, news_calls,
                           slept, exc, ai_prediction_for_tomorrow,
                           accuracy_check_hit,
                           yesterdays_predicted_range_str,
                           historical_log_record>>
    /\ UNCHANGED <<run, GEMINI_API_KEY, NEWS_API_KEY, exit_status, live_file,
                   history_file, previous_predictions, file_at_start,
                   snapshot_writes>>

\* lines 116-128
Evaluate ==
    /\ pc = "Evaluate"
    /\ LET r == EvaluateAccuracy(previous_predictions, symbol,
                                 current_price_of(stock_data))
       IN  IF r.raised
           THEN HandleError(todays_data_for_json.predictions, r.exc)
           ELSE /\ accuracy_check_hit' = r.hit
                /\ yesterdays_predicted_range_str' = r.str
                /\ outcome' = [outcome EXCEPT ![run][symbol].result =
                                  ResultOf(r.hit)]
                /\ pc' = "BuildRecord"
                /\ UNCHANGED <<todays_data_for_json, idx, stock_data, news,
                               news_calls, attempt, calls, slept, trace, exc,
                               ai_prediction_for_tomorrow,
                               historical_log_record>>
    /\ UNCHANGED <<run, GEMINI_API_KEY, NEWS_API_KEY, exit_status, live_file,
                   history_file, previous_predictions, file_at_start,
                   snapshot_writes>>

\* lines 131-159: the live record is appended, then the history row is built
BuildRecord ==
    /\ pc = "BuildRecord"
    /\ LET live_record == LiveRecord(symbol, stock_data,
                                     ai_prediction_for_tomorrow,
                                     accuracy_check_hit,
                                     yesterdays_predicted_range_str)
           appended == Append(todays_data_for_json.predictions, live_record)
           r == HistoryRecord(run, symbol, stock_data,
                              ai_prediction_for_tomorrow, accuracy_check_hit,
                              yesterdays_predicted_range_str)
       IN  IF r.raised
           THEN HandleError(appended, r.exc)
           ELSE /\ todays_data_for_json' =
                      [todays_data_for_json EXCEPT !.predictions = appended]
                /\ historical_log_record' = r.value
                /\ pc' = "Persist"
                /\ UNCHANGED <<idx, stock_data, news, news_calls, attempt,
                               calls, slept, trace, exc,
                               ai_prediction_for_tomorrow, accuracy_check_hit,
                               yesterdays_predicted_range_str, outcome>>
    /\ UNCHANGED <<run, GEMINI_API_KEY, NEWS_API_KEY, exit_status, live_file,
                   history_file, previous_predictions, file_at_start,
                   snapshot_writes>>

\* lines 160-162 with log_to_history_csv (lines 70-87); open() can fail
Persist ==
    /\ pc = "Persist"
    /\ \E writable \in BOOLEAN :
          IF writable
          THEN /\ history_file' =
                     log_to_history_csv(history_file, historical_log_record)
               /\ outcome' = [outcome EXCEPT ![run][symbol].status = "Success"]
               /\ NextSymbol
               /\ LocalsCleared
               /\ UNCHANGED todays_data_for_json
          ELSE /\ HandleError(todays_data_for_json.predictions,
                              Exc("OSError", "Permission denied: history.csv"))
               /\ UNCHANGED history_file
    /\ UNCHANGED <<run, GEMINI_API_KEY, NEWS_API_KEY, exit_status, live_file,
                   previous_predictions, file_at_start, snapshot_writes>>

\* lines 168-170; open() can fail, and nothing catches that
WriteSnapshot ==
    /\ pc = "WriteSnapshot"
    /\ \E writable \in BOOLEAN :
          IF writable
          THEN /\ live_file' = LiveFile("json",
                                        todays_data_for_json.last_updated,
                                        todays_data_for_json.predictions)
               /\ snapshot_writes' = snapshot_writes + 1
               /\ pc' = "Done"
               /\ exit_status' = 0
               /\ UNCHANGED exc
          ELSE /\ pc' = "Crashed"
               /\ exit_status' = 1
               /\ exc' = Exc("OSError", "Permission denied: predictions.json")
               /\ UNCHANGED <<live_file, snapshot_writes>>
    /\ UNCHANGED <<run, GEMINI_API_KEY, NEWS_API_KEY, history_file,
                   previous_predictions, todays_data_for_json, idx,
                   stock_data, news, news_calls, attempt, calls, slept, trace,
                   ai_prediction_for_tomorrow, accuracy_check_hit,
                   yesterdays_predicted_range_str, historical_log_record,
                   outcome, file_at_start>>

\* the scheduler starts the script again: a fresh process, the same files
NextRun ==
    /\ pc \in {"Done", "Exit", "Crashed"}
    /\ run + 1 \in Runs
    /\ run' = run + 1
    /\ pc' = "Config"
    /\ GEMINI_API_KEY' = FALSE
    /\ NEWS_API_KEY' = FALSE
    /\ exit_status' = -1
    /\ previous_predictions' = EmptyPrior
    /\ todays_data_for_json' = NoSnapshot
    /\ idx' = 1
    /\ LocalsCleared
    /\ file_at_start' = live_file
    /\ snapshot_writes' = 0
    /\ UNCHANGED <<live_file, history_file, outcome>>

Next ==
    \/ Configure
    \/ LoadPriorSnapshot
    \/ FetchData
    \/ ForecastAttempt(PipelineAnswers)
    \/ ForecastReturn
    \/ Evaluate
    \/ BuildRecord
    \/ Persist
    \/ WriteSnapshot
    \/ NextRun

Spec == Init /\ [][Next]_vars

(***************************************************************************)
(* get_ai_analysis on its own: the first symbol of a run has its data and  *)
(* the endpoint answers each request in any of the ways it can.            *)
(***************************************************************************)
ForecastAnswers ==
    {Answer(k, NoText) : k \in FailureKinds}
    \cup {Answer("text", ReplyText(fenced, body)) :
            fenced \in BOOLEAN,
            body \in {Garbage, PromptObj(Num(1), Num(3)),
                      RangeObj(List(<<Num(2), Num(2)>>))}}

InitForecast ==
    /\ run = 1
    /\ pc = "Forecast"
    /\ GEMINI_API_KEY = TRUE
    /\ NEWS_API_KEY = FALSE
    /\ exit_status = -1
    /\ live_file = MissingFile
    /\ history_file = NoHistory
    /\ previous_predictions = EmptyPrior
    /\ todays_data_for_json = [last_updated |-> 1, predictions |-> <<>>]
    /\ idx = 1
    /\ stock_data = <<1, 2>>
    /\ news = "No recent news found."
    /\ news_calls = 0
    /\ attempt = 0
    /\ calls = 0
    /\ slept = 0
    /\ trace = <<>>
    /\ exc = NoExc
    /\ ai_prediction_for_tomorrow = None
    /\ accuracy_check_hit = None
    /\ yesterdays_predicted_range_str = ""
    /\ historical_log_record = None
    /\ outcome = [r \in Runs |-> [s \in Symbols |->
                    IF r = 1 /\ s = SYMBOLS[1]
                    THEN [Pending EXCEPT !.bars = <<1, 2>>]
                    ELSE Pending]]
    /\ file_at_start = live_file
    /\ snapshot_writes = 0

NextForecast == ForecastAttempt(ForecastAnswers)

SpecForecast == InitForecast /\ [][NextForecast]_vars

(***************************************************************************)
(* The accuracy check on its own: the second run has the forecast of its   *)
(* first symbol, and the snapshot of the first run holds any prior.        *)
(***************************************************************************)
\* closes and forecast bounds run over 1..MaxPrice
MaxPrice == 3

Bounds == {None} \cup {Num(n) : n \in 1..MaxPrice}

\* predicted_range as run 1 can have stored it
PriorRanges ==
    {None, List(<<>>)}
    \cup {List(<<lo>>) : lo \in Bounds}
    \cup {List(<<lo, hi>>) : lo \in Bounds, hi \in Bounds}

TodaysReply == PromptObj(Num(1), Num(3))

\* what run 1 wrote for the first symbol: nothing, an error, or a success
PriorSnapshots ==
    {<<>>, <<ErrorRecord(SYMBOLS[1], "request failed")>>}
    \cup {<<LiveRecord(SYMBOLS[1], <<1, 2>>, RangeObj(r), None, "N/A")>> :
            r \in PriorRanges}

InitEval ==
    /\ run = 2
    /\ pc = "Evaluate"
    /\ GEMINI_API_KEY = TRUE
    /\ NEWS_API_KEY = FALSE
    /\ exit_status = -1
    /\ \E preds \in PriorSnapshots : live_file = LiveFile("json", 1, preds)
    /\ history_file = NoHistory
    /\ previous_predictions = LoadPrior(live_file).value
    /\ todays_data_for_json = [last_updated |-> 2, predictions |-> <<>>]
    /\ idx = 1
    /\ \E close \in 1..MaxPrice : stock_data = <<1, close>>
    /\ news = ""
    /\ news_calls = 0
    /\ attempt = 0
    /\ calls = 0
    /\ slept = 0
    /\ trace = <<>>
    /\ exc = NoExc
    /\ ai_prediction_for_tomorrow = TodaysReply
    /\ accuracy_check_hit = None
    /\ yesterdays_predicted_range_str = ""
    /\ historical_log_record = None
    /\ outcome = [r \in Runs |-> [s \in Symbols |->
                    IF r = 2 /\ s = SYMBOLS[1]
                    THEN [Pending EXCEPT !.bars = stock_data,
                                         !.forecast = TodaysReply]
                    ELSE Pending]]
    /\ file_at_start = live_file
    /\ snapshot_writes = 0

NextEval == Evaluate

SpecEval == InitEval /\ [][NextEval]_vars

(***************************************************************************)
(* Vocabulary of the properties.                                           *)
(***************************************************************************)
\* the success records the snapshot read at the start of the run holds for s
PriorRecords(s) ==
    {file_at_start.predictions[i] : i \in
        {j \in 1..Len(file_at_start.predictions) :
            /\ file_at_start.predictions[j].symbol = s
            /\ "error" \notin DOMAIN file_at_start.predictions[j]}}

PriorAbsent(s) == file_at_start.kind # "json" \/ PriorRecords(s) = {}

\* the i-th bound of a stored forecast; a bound that is not there is null
BoundOf(item, i) ==
    IF item.predicted_range.t = "list" /\ Len(item.predicted_range.v) >= i
    THEN item.predicted_range.v[i]
    ELSE None

HasNullBound(item) == BoundOf(item, 1) = None \/ BoundOf(item, 2) = None

Holds(item, price) ==
    /\ ~HasNullBound(item)
    /\ BoundOf(item, 1).v <= price
    /\ price <= BoundOf(item, 2).v

IsInverted(item) ==
    /\ ~HasNullBound(item)
    /\ BoundOf(item, 1).v > BoundOf(item, 2).v

\* today's close of s in run r, once the data was fetched
CloseOf(r, s) == outcome[r][s].bars[Len(outcome[r][s].bars)]

InvertedPrior == \E item \in PriorRecords(SYMBOLS[1]) : IsInverted(item)

IsValidAnswer(a) == a.kind = "text" /\ a.text.body # Garbage

ValidAttempts == {i \in 1..Len(trace) : IsValidAnswer(trace[i])}

\* C3 as stated: get_ai_analysis makes at most 3 requests and none after a
\* parsable answer; when it is done the number of requests is the index of
\* the first parsable answer, or 3 if no answer was parsable.
C3_CallsFirstValidOrThree ==
    /\ calls <= max_retries
    /\ calls = Len(trace)
    /\ pc = "Forecast" => ValidAttempts = {}
    /\ pc = "ForecastDone" =>
          IF ValidAttempts # {}
          THEN /\ calls \in ValidAttempts
               /\ \A i \in ValidAttempts : calls <= i
          ELSE calls = max_retries

\* C4 as stated: a failed attempt 1 or 2 is followed by a 2-unit delay and
\* another attempt; only the failure of attempt 3 reaches the caller, with
\* the cause of that attempt.
C4_EarlyFailuresRetried ==
    /\ pc = "Forecast" =>
          /\ attempt = Len(trace)
          /\ slept = RetryDelay * Len(trace)
    /\ (pc = "ForecastDone" /\ exc # NoExc) =>
          /\ Len(trace) = max_retries
          /\ slept = RetryDelay * (max_retries - 1)
          /\ exc = ParseAttempt(trace[max_retries]).exc

(***************************************************************************)
(* Properties of whole runs.                                               *)
(***************************************************************************)
Terminal(r, s) == outcome[r][s].status \in {"Success", "Failed"}

InLoop ==
    pc \in {"FetchData", "Forecast", "ForecastDone", "Evaluate",
            "BuildRecord", "Persist"}

predictions == todays_data_for_json.predictions

IsErrorVariant(item) == "error" \in DOMAIN item

\* the prior record of s the run started with (s has one)
PriorRecord(s) == CHOOSE item \in PriorRecords(s) : TRUE

Checkable(s) == ~PriorAbsent(s) /\ ~HasNullBound(PriorRecord(s))

\* the record a symbol's own inputs call for: its bars, its forecast and
\* the prior record of the symbol
ExpectedRecord(r, s) ==
    LiveRecord(s, outcome[r][s].bars, outcome[r][s].forecast,
               IF Checkable(s)
               THEN Bool(Holds(PriorRecord(s), CloseOf(r, s)))
               ELSE None,
               IF Checkable(s)
               THEN Money(BoundOf(PriorRecord(s), 1).v) \o " - "
                       \o Money(BoundOf(PriorRecord(s), 2).v)
               ELSE "N/A")

FollowsPrompt(f) ==
    /\ {"predicted_low", "predicted_high"} \subseteq DOMAIN f
    /\ f.predicted_low # None
    /\ f.predicted_high # None

\* C1 as stated: if run 1 got a forecast with the requested keys
\* predicted_low and predicted_high, both non-null, for a symbol it processed
\* successfully, and wrote its snapshot, then a successful run 2 rates the
\* symbol Hit or Miss by comparing its close with those bounds.
C1_PromptForecastIsChecked ==
    \A s \in Symbols :
        ( /\ run = 2
          /\ file_at_start.kind = "json"
          /\ file_at_start.last_updated = 1
          /\ outcome[1][s].status = "Success"
          /\ FollowsPrompt(outcome[1][s].forecast)
          /\ outcome[2][s].status = "Success" )
        => outcome[2][s].result =
              IF /\ outcome[1][s].forecast.predicted_low.v <= CloseOf(2, s)
                 /\ CloseOf(2, s) <= outcome[1][s].forecast.predicted_high.v
              THEN "Hit" ELSE "Miss"

\* C2: a symbol that failed, at whatever step, has an error record in the
\* collection and did not end the run; a symbol that succeeded has the record
\* its own inputs call for, whatever happened to the other symbols.
InvC2_FailureIsolation ==
    /\ \A s \in Symbols :
          /\ outcome[run][s].status = "Failed" =>
                \E i \in 1..Len(predictions) :
                    /\ predictions[i].symbol = s
                    /\ IsErrorVariant(predictions[i])
          /\ outcome[run][s].status = "Success" =>
                \E i \in 1..Len(predictions) :
                    predictions[i] = ExpectedRecord(run, s)
    /\ \A i \in 1..Len(SYMBOLS) :
          (InLoop /\ i < idx) => Terminal(run, SYMBOLS[i])
    /\ pc = "Crashed" =>
          \/ \A s \in Symbols : outcome[run][s] = Pending
          \/ \A s \in Symbols : Terminal(run, s)

\* C2 witness: in run 1 the first symbol failed and the second succeeded, in
\* run 2 the first succeeded and the second failed
WitC2_FailedBesideSuccess ==
    /\ run = 2
    /\ pc = "WriteSnapshot"
    /\ outcome[1][SYMBOLS[1]].status = "Failed"
    /\ outcome[1][SYMBOLS[2]].status = "Success"
    /\ outcome[2][SYMBOLS[1]].status = "Success"
    /\ outcome[2][SYMBOLS[2]].status = "Failed"

\* C7: while symbols are processed the prior mapping is the one of the
\* snapshot the run started with; predictions.json is written at most once,
\* exactly once by the time the run is done, and is untouched while any
\* symbol is not yet Success or Failed.
InvC7_SnapshotOrdering ==
    /\ (InLoop \/ \E s \in Symbols : outcome[run][s] # Pending) =>
          /\ DOMAIN previous_predictions =
                {s \in Symbols : ~PriorAbsent(s)}
          /\ \A s \in DOMAIN previous_predictions :
                previous_predictions[s] \in PriorRecords(s)
    /\ snapshot_writes <= 1
    /\ snapshot_writes = 1 <=> pc = "Done"
    /\ pc \in {"WriteSnapshot", "Done"} =>
          \A s \in Symbols : Terminal(run, s)
    /\ (\E s \in Symbols : ~Terminal(run, s)) =>
          /\ live_file = file_at_start
          /\ snapshot_writes = 0
    /\ pc = "Done" =>
          live_file = LiveFile("json", run, predictions)

\* C7 witness: the second run is done and has replaced the first run's snapshot
WitC7_SecondSnapshotWritten ==
    /\ run = 2
    /\ pc = "Done"
    /\ file_at_start.kind = "json"
    /\ live_file # file_at_start

IsDataRow(row) == "date" \in DOMAIN row

\* positions of the rows run r appended for s
RowsOf(r, s) ==
    {i \in 1..Len(history_file.rows) :
        /\ IsDataRow(history_file.rows[i])
        /\ history_file.rows[i].date = r
        /\ history_file.rows[i].symbol = s}

\* C8 as stated: a symbol that succeeded has exactly one history row of this
\* run; a symbol that failed has none and is in the collection only as an
\* error record.
C8_OneRowPerSuccess ==
    \A s \in Symbols :
        /\ outcome[run][s].status = "Success" =>
              Cardinality(RowsOf(run, s)) = 1
        /\ outcome[run][s].status = "Failed" =>
              /\ RowsOf(run, s) = {}
              /\ \A i \in 1..Len(predictions) :
                    predictions[i].symbol = s => IsErrorVariant(predictions[i])
        /\ \A i \in 1..Len(predictions) :
              (predictions[i].symbol = s /\ ~IsErrorVariant(predictions[i])
               /\ pc \in {"WriteSnapshot", "Done"})
              => Cardinality(RowsOf(run, s)) = 1

Successes == {rs \in Runs \X Symbols : outcome[rs[1]][rs[2]].status = "Success"}

IsPrefix(a, b) == Len(a) <= Len(b) /\ SubSeq(b, 1, Len(a)) = a

\* symbols of the data rows of run r, in file order
RowSymbols(r) ==
    LET mine == SelectSeq(history_file.rows,
                          LAMBDA row : IsDataRow(row) /\ row.date = r)
    IN  [i \in 1..Len(mine) |-> mine[i].symbol]

CompletedSymbols(r) ==
    SelectSeq(SYMBOLS, LAMBDA s : outcome[r][s].status = "Success")

CrashConsistent ==
    (InLoop \/ pc = "WriteSnapshot") =>
        /\ RowSymbols(run) = CompletedSymbols(run)
        /\ live_file = file_at_start

\* C10: no step changes or removes a row of history.csv, and at every point
\* of the loop the file holds this run's rows of exactly the symbols that
\* completed, while predictions.json is still what the run started with.
PropC10_AppendOnlyCrashConsistent ==
    /\ []CrashConsistent
    /\ [][IsPrefix(history_file.rows, history_file'.rows)]_vars

\* C10 witness: run 2 is in its loop after completing its first symbol, and
\* predictions.json is still the snapshot of run 1
WitC10_MidLoopSecondRun ==
    /\ run = 2
    /\ pc = "Forecast"
    /\ idx = 2
    /\ outcome[2][SYMBOLS[1]].status = "Success"
    /\ file_at_start.kind = "json"
    /\ Len(RowSymbols(1)) > 0

(***************************************************************************)
(* Error handling across runs.                                             *)
(***************************************************************************)
\* the snapshot the run started with holds an error record of s
HadErrorRecord(s) ==
    /\ file_at_start.kind = "json"
    /\ \E i \in 1..Len(file_at_start.predictions) :
          /\ file_at_start.predictions[i].symbol = s
          /\ IsErrorVariant(file_at_start.predictions[i])

Evaluated(r, s) == outcome[r][s].result # "NotEvaluated"

\* C11 as stated: a symbol that the snapshot of run 1 holds as an error
\* record is rated Unknown in run 2, with the prior range shown as "N/A".
C11_ErrorRecordGivesUnknown ==
    /\ \A s \in Symbols :
          (run = 2 /\ HadErrorRecord(s) /\ Evaluated(2, s))
          => outcome[2][s].result = "Unknown"
    /\ (run = 2 /\ pc = "BuildRecord" /\ HadErrorRecord(symbol))
          => yesterdays_predicted_range_str = "N/A"

LoadedFrom(kinds) ==
    /\ file_at_start.kind \in kinds
    /\ pc \notin {"Config", "LoadPrior", "Exit"}

\* C12 as stated: with predictions.json missing, not JSON, or JSON that is
\* not a snapshot object, the load does not end the run; the prior mapping is
\* empty and every symbol that is rated is rated Unknown.
C12_LoadNeverFails ==
    LoadedFrom({"missing", "malformed", "not_object"}) =>
        /\ ~(pc = "Crashed" /\ \A s \in Symbols : outcome[run][s] = Pending)
        /\ previous_predictions = EmptyPrior
        /\ \A s \in Symbols :
              Evaluated(run, s) => outcome[run][s].result = "Unknown"

NewsPlaceholders ==
    {"No recent news found.", "Could not fetch news: request failed"}

\* C13 as stated: no answer of the news API fails a symbol: with enough bars
\* the symbol reaches the forecast step, its news the headlines or a
\* placeholder, and no error record carries a cause of the news fetch.
C13_NewsNeverFailsSymbol ==
    /\ pc = "Forecast" => news \in NewsPlaceholders \cup {"- headline"}
    /\ \A i \in 1..Len(predictions) :
          IsErrorVariant(predictions[i]) => predictions[i].error # "'title'"

\* C14 as stated: when history.csv or predictions.json cannot be written the
\* run ends with the unhandled failure; no error record of a symbol carries
\* the cause of a failed write.
C14_SinkWriteFailureIsFatal ==
    /\ \A i \in 1..Len(predictions) :
          IsErrorVariant(predictions[i]) =>
              predictions[i].error # "Permission denied: history.csv"
    /\ (pc = "Crashed" /\ exc.type = "OSError") => exit_status = 1

\* C15: without GEMINI_API_KEY the process exits with status 1 and has read
\* no snapshot, processed no symbol and written no file; past the
\* configuration the key is there. Without NEWS_API_KEY the run goes on, asks
\* the news API nothing and hands "No recent news found." to the forecast.
InvC15_KeyHandling ==
    /\ pc = "Exit" =>
          /\ ~GEMINI_API_KEY
          /\ exit_status = 1
          /\ previous_predictions = EmptyPrior
          /\ todays_data_for_json = NoSnapshot
          /\ \A s \in Symbols :
                outcome[run][s] = Pending /\ RowsOf(run, s) = {}
          /\ live_file = file_at_start
          /\ snapshot_writes = 0
    /\ pc \notin {"Config", "Exit"} => GEMINI_API_KEY
    /\ ~GEMINI_API_KEY => exit_status \in {-1, 1}
    /\ ~NEWS_API_KEY =>
          /\ news_calls = 0
          /\ pc \in {"Forecast", "ForecastDone"} =>
                news = "No recent news found."

\* C15 witness: run 1 ended at the missing key with nothing read or written,
\* and run 2, without the news key, has its second symbol at the forecast
WitC15_ExitThenKeylessNews ==
    /\ run = 2
    /\ file_at_start.kind = "missing"
    /\ \A s \in Symbols : outcome[1][s] = Pending
    /\ ~history_file.exists
    /\ pc = "Forecast"
    /\ idx = 2
    /\ ~NEWS_API_KEY
    /\ news = "No recent news found."

\* C16 as stated: a run that has GEMINI_API_KEY ends in no other way than
\* Done with status 0 and every symbol visited, and until then it can always
\* take a step.
C16_RunEndsDoneZero ==
    /\ pc # "Crashed"
    /\ (GEMINI_API_KEY /\ exit_status # -1) =>
          /\ pc = "Done"
          /\ exit_status = 0
          /\ \A s \in Symbols : Terminal(run, s)
    /\ pc \notin {"Done", "Exit", "Crashed"} => ENABLED Next

(***************************************************************************)
(* The two sinks side by side.                                             *)
(***************************************************************************)
Undated(row) == [row EXCEPT !.date = 0]

\* both runs started from an empty prior and gave s the same bars and the
\* same forecast, and both logged s
SameInputs(s) ==
    /\ run = 2
    /\ file_at_start.kind # "json"
    /\ outcome[1][s].status = "Success"
    /\ outcome[2][s].status = "Success"
    /\ outcome[1][s].bars = outcome[2][s].bars
    /\ outcome[1][s].forecast = outcome[2][s].forecast

RecordsOf(preds, s) == {i \in 1..Len(preds) : preds[i].symbol = s}

\* C18 as stated: the snapshot that is written holds exactly one record for
\* each configured symbol, the success record or the error record.
C18_OneRecordPerSymbol ==
    pc = "Done" =>
        /\ live_file.kind = "json"
        /\ \A s \in Symbols :
              Cardinality(RecordsOf(live_file.predictions, s)) = 1

\* C19: for a symbol that was processed successfully the live record's
\* accuracy_check is null exactly when the result is Unknown, and then the
\* row says "N/A" and has no flag; otherwise accuracy_check.hit and the row's
\* accuracy_check_hit are the result, and both carry the same range string.
InvC19_AccuracyFieldsAgree ==
    \A s \in Symbols :
        outcome[run][s].status = "Success" =>
            /\ RowsOf(run, s) # {}
            /\ \E i \in RecordsOf(predictions, s) :
                  ~IsErrorVariant(predictions[i])
            /\ \A i \in RecordsOf(predictions, s), j \in RowsOf(run, s) :
                  LET live == predictions[i]
                      row == history_file.rows[j]
                      result == outcome[run][s].result
                  IN  /\ ~IsErrorVariant(live)
                      /\ live.accuracy_check = None <=> result = "Unknown"
                      /\ result = "Unknown" =>
                            /\ row.yesterdays_predicted_range = "N/A"
                            /\ row.accuracy_check_hit = None
                      /\ result # "Unknown" =>
                            /\ result \in {"Hit", "Miss"}
                            /\ ResultOf(live.accuracy_check.hit) = result
                            /\ row.accuracy_check_hit = live.accuracy_check.hit
                            /\ row.yesterdays_predicted_range =
                                  live.accuracy_check.yesterdays_predicted_range
                            /\ row.yesterdays_predicted_range # "N/A"

\* C19 witness: run 2 logged the first symbol as a Miss and the second, which
\* had no prior, as Unknown
WitC19_MissBesideUnknown ==
    /\ run = 2
    /\ pc = "WriteSnapshot"
    /\ outcome[2][SYMBOLS[1]].status = "Success"
    /\ outcome[2][SYMBOLS[1]].result = "Miss"
    /\ outcome[2][SYMBOLS[2]].status = "Success"
    /\ outcome[2][SYMBOLS[2]].result = "Unknown"

====
